---- MODULE Spec2Model ----
(***************************************************************************)
(* Model of src/main/resources/Report/InstanceCounts.py: the report script *)
(* that globs ./raw/S*_InstanceCount.csv, parses each file with pandas,    *)
(* cuts the endpoint label out of the path, and hands the collected        *)
(* (label, data) pairs to util.plot with a 'post' step drawer before       *)
(* showing the chart.                                                      *)
(*                                                                         *)
(* Text is modelled as sequences of one-character strings; a CSV file is a *)
(* sequence of lines, a line a sequence of tokens (cells and separators).  *)
(***************************************************************************)
EXTENDS Integers, Sequences, FiniteSets, TLC

VARIABLES
    fs,         \* the file system: path -> file text (never written by the script)
    files,      \* the list glob.glob returned
    i,          \* number of loop iterations completed (index of the next file)
    datasets,   \* the script's list of (endpoint_name, data) pairs
    origin,     \* history: origin[k] is the path datasets[k] was read from
    readLog,    \* history: the paths handed to pandas.read_csv, in order
    plotArgs,   \* history: the argument of each util.plot call
    chart,      \* the lines drawn on the shared axes
    windows,    \* history: the chart shown by each plt.show call
    pc,         \* position in the script
    error       \* the unhandled exception that ended the run, or "none"

vars == <<fs, files, i, datasets, origin, readLog, plotArgs, chart, windows, pc, error>>

(***************************************************************************)
(* Bounds of the model.                                                    *)
(***************************************************************************)
\* Largest number of files in the modelled directories.
MaxFiles == 3
\* Longest bracket text between "S" and "_InstanceCount.csv" in a lone file's name.
MaxBody == 4

(***************************************************************************)
(* Text helpers: Python's str.index and slicing, 0-based.                  *)
(***************************************************************************)
\* s contains the character c.
Contains(s, c) == \E k \in 1..Len(s) : s[k] = c

\* str.index(c): the 0-based position of the first c (callers check Contains:
\* Python raises ValueError when c is absent).
index(s, c) == (CHOOSE k \in 1..Len(s) : s[k] = c /\ \A j \in 1..(k - 1) : s[j] # c) - 1

\* str.rindex(c): the 0-based position of the last c.
rindex(s, c) == (CHOOSE k \in 1..Len(s) : s[k] = c /\ \A j \in (k + 1)..Len(s) : s[j] # c) - 1

\* s[start:stop] for 0 <= start, stop <= len(s): empty when stop <= start.
Slice(s, start, stop) == SubSeq(s, start + 1, stop)

(***************************************************************************)
(* Paths and the glob pattern.                                             *)
(***************************************************************************)
\* os.path.join of three components (POSIX separator).
os_path_join(a, b, c) == a \o <<"/">> \o b \o <<"/">> \o c

\* The pattern without its leading "S": "*_InstanceCount.csv".
PatternName_anyPrefix == <<"*", "_", "I", "n", "s", "t", "a", "n", "c", "e", "C", "o", "u", "n", "t", ".", "c", "s", "v">>

\* The literal "S*_InstanceCount.csv".
PatternName == <<"S", "*", "_", "I", "n", "s", "t", "a", "n", "c", "e", "C", "o", "u", "n", "t", ".", "c", "s", "v">>


\* The directory components of the pattern.
PatternTop == <<".">>

PatternSub == <<"r", "a", "w">>

\* os.path.join(".", "raw", "S*_InstanceCount.csv").
Pattern == os_path_join(PatternTop, PatternSub, PatternName)

\* os.path.split: everything before the last "/" and everything after it.
Dirname(p) == Slice(p, 0, rindex(p, "/"))

Basename(p) == Slice(p, rindex(p, "/") + 1, Len(p))

\* fnmatch of a name against a pattern whose only wildcard is "*".
RECURSIVE fnmatch(_, _)
fnmatch(name, pat) ==
    IF pat = <<>> THEN name = <<>>
    ELSE IF Head(pat) = "*"
         THEN fnmatch(name, Tail(pat)) \/ (name # <<>> /\ fnmatch(Tail(name), pat))
         ELSE name # <<>> /\ Head(name) = Head(pat) /\ fnmatch(Tail(name), Tail(pat))

\* The paths glob.glob(pattern) finds in file system f: the entries of the
\* pattern's directory whose name matches the pattern's last component.
GlobSet(f, pattern) ==
    {p \in DOMAIN f : Dirname(p) = Dirname(pattern) /\ fnmatch(Basename(p), Basename(pattern))}

\* Every order in which the platform may list the set S.
Orderings(S) ==
    {s \in [1..Cardinality(S) -> S] : \A a, b \in 1..Cardinality(S) : a # b => s[a] # s[b]}

(***************************************************************************)
(* pandas.read_csv(file, sep=";", usecols=[0, 1]).                         *)
(***************************************************************************)
sep == ";"

usecols == {0, 1}

\* A line cut at the separator tokens: the sequence of its cells, each cell
\* the sequence of tokens between two separators.
RECURSIVE Split(_, _)
Split(line, s) ==
    IF ~Contains(line, s) THEN <<line>>
    ELSE <<Slice(line, 0, index(line, s))>> \o Split(Slice(line, index(line, s) + 1, Len(line)), s)

\* The number a numeric cell denotes.
ToNumber(cell) ==
    CASE cell = <<"0">> -> 0
      [] cell = <<"1">> -> 1
      [] cell = <<"2">> -> 2
      [] cell = <<"3">> -> 3

NoData == [columns |-> <<>>, rows |-> <<>>]

\* The parse of a file's text: an empty file raises EmptyDataError, a header
\* with fewer columns than usecols asks for raises ParserError, and otherwise
\* the frame holds the header's first two names and each row's first two cells.
read_csv(text) ==
    IF text = <<>> THEN [raises |-> "EmptyDataError", data |-> NoData]
    ELSE LET header == Split(text[1], sep)
         IN  IF \E c \in usecols : c >= Len(header)
             THEN [raises |-> "ParserError", data |-> NoData]
             ELSE [raises |-> "none",
                   data |-> [columns |-> <<header[1], header[2]>>,
                             rows |-> [r \in 1..(Len(text) - 1) |->
                                         LET cells == Split(text[r + 1], sep)
                                         IN  <<ToNumber(cells[1]), ToNumber(cells[2])>>]]]

(***************************************************************************)
(* Label extraction: file[file.index("[") + 1:file.index("]")].            *)
(***************************************************************************)
\* file.index raises ValueError when the path has no "[" or no "]".
endpoint_raises(file) == ~Contains(file, "[") \/ ~Contains(file, "]")

\* The label cut at the last "]" instead of the first.
endpoint_name_last(file) == Slice(file, index(file, "[") + 1, rindex(file, "]"))

\* The label: from just after the first "[" up to the first "]" of the path.
endpoint_name(file) == Slice(file, index(file, "[") + 1, index(file, "]"))

(***************************************************************************)
(* Plotting: the drawer handed to util.plot, and the helper itself.        *)
(***************************************************************************)
TimeColumn == <<"Simulation Time">>

ValueColumn == <<"Value">>

\* dataset[name] raises KeyError when the frame has no such column.
HasColumn(data, name) == \E k \in 1..Len(data.columns) : data.columns[k] = name

\* dataset[name]: the cells of the named column, in row order.
Column(data, name) ==
    LET k == CHOOSE c \in 1..Len(data.columns) : data.columns[c] = name
    IN  [r \in 1..Len(data.rows) |-> data.rows[r][k]]

where_pre == "pre"

\* The where= argument of ax.step.
where == "post"

\* The vertices ax.step(x, y, where=w) draws: with "post" the value y[k] is
\* held from x[k] to x[k+1], with "pre" the value y[k+1] is held there.
step(x, y, w) ==
    [n \in 1..(IF Len(x) = 0 THEN 0 ELSE 2 * Len(x) - 1) |->
        IF n % 2 = 1 THEN <<x[(n + 1) \div 2], y[(n + 1) \div 2]>>
        ELSE IF w = "post" THEN <<x[n \div 2 + 1], y[n \div 2]>>
             ELSE <<x[n \div 2], y[n \div 2 + 1]>>]

\* The lambda: raises KeyError unless both columns are present.
drawer_raises(dataset) == ~HasColumn(dataset, TimeColumn) \/ ~HasColumn(dataset, ValueColumn)

drawer(dataset) == step(Column(dataset, TimeColumn), Column(dataset, ValueColumn), where)

\* util.plot: one labelled line per (label, data) pair, on one shared chart,
\* in list order; it stops at the first pair whose drawer raises.
util_plot_raises(ds) == \E k \in 1..Len(ds) : drawer_raises(ds[k][2])

util_plot(ds) ==
    LET n == IF util_plot_raises(ds)
             THEN (CHOOSE k \in 1..Len(ds) : drawer_raises(ds[k][2])
                       /\ \A j \in 1..(k - 1) : ~drawer_raises(ds[j][2])) - 1
             ELSE Len(ds)
    IN  [k \in 1..n |-> [label |-> ds[k][1], line |-> drawer(ds[k][2])]]

(***************************************************************************)
(* The directories the script is run against.                              *)
(***************************************************************************)
Suffix == <<"_", "I", "n", "s", "t", "a", "n", "c", "e", "C", "o", "u", "n", "t", ".", "c", "s", "v">>

RawDir == <<".", "/", "r", "a", "w", "/">>

EndpointA == <<"E", "n", "d", "p", "o", "i", "n", "t", "A">>

\* ./raw/S[a]_InstanceCount.csv and ./raw/S[b]_InstanceCount.csv
PathA == RawDir \o <<"S", "[", "a", "]">> \o Suffix

PathB == RawDir \o <<"S", "[", "b", "]">> \o Suffix

\* ./raw/S[EndpointA]_InstanceCount.csv
PathEndpointA == RawDir \o <<"S", "[">> \o EndpointA \o <<"]">> \o Suffix

\* ./raw/Sa_InstanceCount.csv: no brackets
PathNoBrackets == RawDir \o <<"S", "a">> \o Suffix

\* ./raw/S][_InstanceCount.csv: the "]" before the "["
PathReversed == RawDir \o <<"S", "]", "[">> \o Suffix

\* ./raw/run[EndpointA]_InstanceCount.csv: the name does not start with "S"
PathRun == RawDir \o <<"r", "u", "n", "[">> \o EndpointA \o <<"]">> \o Suffix

\* ./raw/S[a].csv: the name does not end with "_InstanceCount.csv"
PathNoSuffix == RawDir \o <<"S", "[", "a", "]", ".", "c", "s", "v">>

\* ./old/S[a]_InstanceCount.csv: not in ./raw
PathOtherDir == <<".", "/", "o", "l", "d", "/", "S", "[", "a", "]">> \o Suffix

KnownPaths ==
    {PathA, PathB, PathEndpointA, PathNoBrackets, PathReversed, PathRun, PathNoSuffix, PathOtherDir}

\* "Simulation Time;Value" / "0;1" / "1;3"
TextTwoRows ==
    << <<"Simulation Time", ";", "Value">>, <<"0", ";", "1">>, <<"1", ";", "3">> >>

\* A third column, which usecols drops: "Simulation Time;Value;Unit" / "0;2;x" / "2;1;x" / "3;2;x"
TextThreeColumns ==
    << <<"Simulation Time", ";", "Value", ";", "Unit">>, <<"0", ";", "2", ";", "x">>,
       <<"2", ";", "1", ";", "x">>, <<"3", ";", "2", ";", "x">> >>

\* An empty file.
TextEmpty == << >>

\* A comma-separated file: one column under sep=";".
TextCommas == << <<"Simulation Time", ",", "Value">>, <<"0", ",", "1">> >>

\* Well-formed, but the first column is not named "Simulation Time".
TextMisnamed == << <<"Time", ";", "Value">>, <<"0", ";", "1">> >>

Texts == {TextTwoRows, TextThreeColumns, TextEmpty, TextCommas, TextMisnamed}

BodyChars == {"[", "]", "a"}

\* The sequences over S of length at most n.
SeqsUpTo(S, n) == UNION {[1..k -> S] : k \in 0..n}

\* Directories of at most MaxFiles known files with any of the texts, and
\* directories holding one well-formed file ./raw/S<body>_InstanceCount.csv.
Directories ==
    UNION {[P -> Texts] : P \in {Q \in SUBSET KnownPaths : Cardinality(Q) <= MaxFiles}}
    \cup {[P \in {RawDir \o <<"S">> \o body \o Suffix} |-> TextTwoRows] : body \in SeqsUpTo(BodyChars, MaxBody)}

(***************************************************************************)
(* The script.                                                             *)
(***************************************************************************)
\* The pair put at the front of the list instead of the end.
append_front(list, x) == <<x>> \o list

\* list.append(x), line 15.
append(list, x) == Append(list, x)

\* Line 9: datasets = [], nothing read, plotted or shown yet.
Init ==
    /\ fs \in Directories
    /\ files = <<>>
    /\ i = 0
    /\ datasets = <<>>
    /\ origin = <<>>
    /\ readLog = <<>>
    /\ plotArgs = <<>>
    /\ chart = <<>>
    /\ windows = <<>>
    /\ pc = "glob"
    /\ error = "none"

\* Line 11: glob.glob lists the matching paths, in an order the platform picks.
Glob ==
    /\ pc = "glob"
    /\ \E order \in Orderings(GlobSet(fs, Pattern)) : files' = order
    /\ pc' = "loop"
    /\ UNCHANGED <<fs, i, datasets, origin, readLog, plotArgs, chart, windows, error>>

\* The file of the current iteration.
file == files[i + 1]

\* A parse failure swallowed: the loop goes on to the next file.
ParseFail_skip ==
    /\ pc = "loop" /\ i < Len(files)
    /\ read_csv(fs[file]).raises # "none"
    /\ readLog' = Append(readLog, file)
    /\ i' = i + 1
    /\ UNCHANGED <<fs, files, datasets, origin, plotArgs, chart, windows, pc, error>>

\* Line 12 raises: read_csv fails on the current file and the run ends.
ParseFail ==
    /\ pc = "loop" /\ i < Len(files)
    /\ read_csv(fs[file]).raises # "none"
    /\ readLog' = Append(readLog, file)
    /\ pc' = "failed"
    /\ error' = read_csv(fs[file]).raises
    /\ UNCHANGED <<fs, files, i, datasets, origin, plotArgs, chart, windows>>

\* A missing bracket swallowed: the loop goes on to the next file.
LabelFail_skip ==
    /\ pc = "loop" /\ i < Len(files)
    /\ read_csv(fs[file]).raises = "none"
    /\ endpoint_raises(file)
    /\ readLog' = Append(readLog, file)
    /\ i' = i + 1
    /\ UNCHANGED <<fs, files, datasets, origin, plotArgs, chart, windows, pc, error>>

\* Line 14 raises: the file parsed, but its path has no "[" or no "]".
LabelFail ==
    /\ pc = "loop" /\ i < Len(files)
    /\ read_csv(fs[file]).raises = "none"
    /\ endpoint_raises(file)
    /\ readLog' = Append(readLog, file)
    /\ pc' = "failed"
    /\ error' = "ValueError"
    /\ UNCHANGED <<fs, files, i, datasets, origin, plotArgs, chart, windows>>

\* Lines 12-15: the file parsed and has a label; the pair is appended.
AppendDataset ==
    /\ pc = "loop" /\ i < Len(files)
    /\ read_csv(fs[file]).raises = "none"
    /\ ~endpoint_raises(file)
    /\ readLog' = Append(readLog, file)
    /\ datasets' = append(datasets, <<endpoint_name(file), read_csv(fs[file]).data>>)
    /\ origin' = Append(origin, file)
    /\ i' = i + 1
    /\ UNCHANGED <<fs, files, plotArgs, chart, windows, pc, error>>

\* The plot call skipped when there is nothing to plot.
Plot_nonEmpty ==
    /\ pc = "loop" /\ i = Len(files)
    /\ datasets # <<>>
    /\ plotArgs' = Append(plotArgs, datasets)
    /\ chart' = util_plot(datasets)
    /\ IF util_plot_raises(datasets)
       THEN pc' = "failed" /\ error' = "KeyError"
       ELSE pc' = "show" /\ error' = error
    /\ UNCHANGED <<fs, files, i, datasets, origin, readLog, windows>>

\* The plot call emptying the list it was given.
Plot_consuming ==
    /\ pc = "loop" /\ i = Len(files)
    /\ plotArgs' = Append(plotArgs, datasets)
    /\ chart' = util_plot(datasets)
    /\ datasets' = <<>>
    /\ IF util_plot_raises(datasets)
       THEN pc' = "failed" /\ error' = "KeyError"
       ELSE pc' = "show" /\ error' = error
    /\ UNCHANGED <<fs, files, i, origin, readLog, windows>>

\* The plot call inside the loop body: reached before the loop is over.
Plot_inLoop ==
    /\ pc = "loop"
    /\ plotArgs' = Append(plotArgs, datasets)
    /\ chart' = util_plot(datasets)
    /\ IF util_plot_raises(datasets)
       THEN pc' = "failed" /\ error' = "KeyError"
       ELSE pc' = "show" /\ error' = error
    /\ UNCHANGED <<fs, files, i, datasets, origin, readLog, windows>>

\* Line 17: the loop is over; util.plot draws every pair with the drawer.
Plot ==
    /\ pc = "loop" /\ i = Len(files)
    /\ plotArgs' = Append(plotArgs, datasets)
    /\ chart' = util_plot(datasets)
    /\ IF util_plot_raises(datasets)
       THEN pc' = "failed" /\ error' = "KeyError"
       ELSE pc' = "show" /\ error' = error
    /\ UNCHANGED <<fs, files, i, datasets, origin, readLog, windows>>

\* Line 19: plt.show displays the chart.
Show ==
    /\ pc = "show"
    /\ windows' = Append(windows, chart)
    /\ pc' = "done"
    /\ UNCHANGED <<fs, files, i, datasets, origin, readLog, plotArgs, chart, error>>

Next == Glob \/ ParseFail \/ LabelFail \/ AppendDataset \/ Plot \/ Show

Spec == Init /\ [][Next]_vars

(***************************************************************************)
(* Vocabulary of the properties, stated on the paths and texts themselves. *)
(***************************************************************************)
\* The 1-based position of the first c in p, 0 when there is none.
FirstPos(p, c) ==
    IF \E k \in 1..Len(p) : p[k] = c
    THEN CHOOSE k \in 1..Len(p) : p[k] = c /\ \A j \in 1..(k - 1) : p[j] # c
    ELSE 0

\* The 1-based position of the first c after position a, 0 when there is none.
FirstPosAfter(p, c, a) ==
    IF \E k \in (a + 1)..Len(p) : p[k] = c
    THEN CHOOSE k \in (a + 1)..Len(p) : p[k] = c /\ \A j \in (a + 1)..(k - 1) : p[j] # c
    ELSE 0

\* p is ./raw/<name> with <name> starting with "S" and ending with "_InstanceCount.csv".
NameMatches(p) ==
    /\ Len(p) >= Len(RawDir) + 1 + Len(Suffix)
    /\ SubSeq(p, 1, Len(RawDir)) = RawDir
    /\ p[Len(RawDir) + 1] = "S"
    /\ SubSeq(p, Len(p) - Len(Suffix) + 1, Len(p)) = Suffix
    /\ \A k \in (Len(RawDir) + 1)..Len(p) : p[k] # "/"

\* The discovered files: the matching paths of the directory.
Discovered == {p \in DOMAIN fs : NameMatches(p)}

\* Texts pandas cannot parse into two columns.
Malformed(text) == text \in {TextEmpty, TextCommas}

MissingBrackets(p) == FirstPos(p, "[") = 0 \/ FirstPos(p, "]") = 0

\* util.plot has been called.
PlotCalled == plotArgs # <<>>

\* plt.show has been called.
ShowCalled == windows # <<>>

(***************************************************************************)
(* C1. For every discovered path with a "[" and a later "]", the stored    *)
(* label is the text strictly between the first "[" and that "]".          *)
(* The code cuts at the first "]" of the whole path, so a "]" before the   *)
(* first "[" yields the empty label: TLC refutes this formula.             *)
(***************************************************************************)
C1_LabelBetweenBrackets ==
    \A k \in 1..Len(datasets) :
        LET p == origin[k]
            a == FirstPos(p, "[")
            b == FirstPosAfter(p, "]", a)
        IN  (a > 0 /\ b > 0) => datasets[k][1] = SubSeq(p, a + 1, b - 1)

(***************************************************************************)
(* C2. When every matching file parses and has brackets, the list handed   *)
(* to util.plot has exactly one (label, data) entry per matching file, and *)
(* its k-th entry comes from the k-th file in discovery order.             *)
(***************************************************************************)
C2_OneEntryPerFileInOrder ==
    (PlotCalled /\ \A p \in Discovered : ~Malformed(fs[p]) /\ ~MissingBrackets(p)) =>
        /\ Len(plotArgs[1]) = Cardinality(Discovered)
        /\ Len(files) = Cardinality(Discovered)
        /\ {files[k] : k \in 1..Len(files)} = Discovered
        /\ origin = files
        /\ \A k \in 1..Len(files) :
               plotArgs[1][k] = <<endpoint_name(files[k]), read_csv(fs[files[k]]).data>>

C2_Witness ==
    /\ PlotCalled
    /\ Len(plotArgs[1]) = 3
    /\ plotArgs[1][1] # plotArgs[1][2]
    /\ plotArgs[1][2] # plotArgs[1][3]

(***************************************************************************)
(* C3 as written: a file contributes a series iff its path matches         *)
(* ./raw/S*_InstanceCount.csv, and ./raw/run[EndpointA]_InstanceCount.csv  *)
(* with two rows yields a series labelled EndpointA. TLC refutes it: that  *)
(* name does not start with "S".                                           *)
(***************************************************************************)
C3_RunFileContributes ==
    pc = "done" =>
        /\ \A p \in DOMAIN fs : NameMatches(p) <=> \E k \in 1..Len(origin) : origin[k] = p
        /\ (PathRun \in DOMAIN fs /\ fs[PathRun] = TextTwoRows) =>
               \E k \in 1..Len(origin) : origin[k] = PathRun /\ datasets[k][1] = EndpointA

(***************************************************************************)
(* C3 amended. Only paths matching ./raw/S*_InstanceCount.csv are read or  *)
(* contribute an entry, and once util.plot is called a file has an entry   *)
(* iff its path matches; run[EndpointA]_InstanceCount.csv never            *)
(* contributes, and S[EndpointA]_InstanceCount.csv with rows (0,1),(1,3)   *)
(* contributes the label EndpointA with the two rows in order.             *)
(***************************************************************************)
C3_MatchingFilesContribute ==
    /\ \A k \in 1..Len(readLog) : readLog[k] \in Discovered
    /\ \A k \in 1..Len(origin) : origin[k] \in Discovered /\ origin[k] # PathRun
    /\ PlotCalled =>
           \A p \in DOMAIN fs : NameMatches(p) <=> \E k \in 1..Len(origin) : origin[k] = p
    /\ \A k \in 1..Len(origin) :
           origin[k] = PathEndpointA =>
               /\ datasets[k][1] = EndpointA
               /\ fs[PathEndpointA] = TextTwoRows =>
                      datasets[k][2].rows = << <<0, 1>>, <<1, 3>> >>

C3_Witness ==
    /\ pc = "done"
    /\ PathRun \in DOMAIN fs
    /\ PathNoSuffix \in DOMAIN fs
    /\ PathEndpointA \in DOMAIN fs
    /\ fs[PathEndpointA] = TextTwoRows
    /\ Len(windows[1]) = 1
    /\ windows[1][1].label = EndpointA

(***************************************************************************)
(* C4. If any matching file fails to parse, the run aborts: util.plot is   *)
(* never called and no chart is shown, whatever the position of the bad    *)
(* file and however many files were parsed before it.                      *)
(***************************************************************************)
C4_ParseFailureAborts ==
    (\E p \in Discovered : Malformed(fs[p])) =>
        /\ ~PlotCalled
        /\ ~ShowCalled
        /\ pc \in {"glob", "loop", "failed"}
        /\ pc = "loop" => i < Len(files)

C4_Witness ==
    /\ pc = "failed"
    /\ error \in {"EmptyDataError", "ParserError"}
    /\ Len(datasets) = 2
    /\ Malformed(fs[files[3]])

C6_NoFilesEmptyChart ==
    Discovered = {} =>
        /\ datasets = <<>>
        /\ pc # "failed" /\ error = "none"
        /\ pc = "done" \/ ENABLED Next
        /\ Len(plotArgs) <= 1 /\ Len(windows) <= 1
        /\ pc \in {"show", "done"} => plotArgs = << <<>> >>
        /\ pc = "done" => windows = << <<>> >>

C6_Witness ==
    /\ pc = "done"
    /\ Discovered = {}
    /\ DOMAIN fs # {}
    /\ plotArgs = << <<>> >>
    /\ windows = << <<>> >>

(***************************************************************************)
(* C7. Each series is drawn with 'post' steps: for samples (t_k, v_k) in   *)
(* row order the line holds v_k from t_k up to t_{k+1} and switches to     *)
(* v_{k+1} exactly at t_{k+1}; at any time strictly between two samples    *)
(* the plotted value is the earlier sample's.                              *)
(***************************************************************************)
Between(a, x, b) == (a <= x /\ x <= b) \/ (b <= x /\ x <= a)

\* The values the drawn line passes through at time t.
PlottedAt(line, t) ==
    {y \in 0..3 :
        \/ \E n \in 1..Len(line) : line[n] = <<t, y>>
        \/ \E n \in 1..(Len(line) - 1) :
               \/ line[n][2] = line[n + 1][2] /\ y = line[n][2]
                  /\ Between(line[n][1], t, line[n + 1][1])
               \/ line[n][1] = line[n + 1][1] /\ t = line[n][1]
                  /\ Between(line[n][2], y, line[n + 1][2])}

C7_PostStepInterpolation ==
    \A w \in 1..Len(windows) : \A k \in 1..Len(windows[w]) :
        LET rows == plotArgs[1][k][2].rows
            line == windows[w][k].line
        IN  /\ Len(line) = (IF Len(rows) = 0 THEN 0 ELSE 2 * Len(rows) - 1)
            /\ \A r \in 1..Len(rows) : line[2 * r - 1] = rows[r]
            /\ \A r \in 1..(Len(rows) - 1) :
                   /\ line[2 * r] = <<rows[r + 1][1], rows[r][2]>>
                   /\ \A t \in (rows[r][1] + 1)..(rows[r + 1][1] - 1) :
                          PlottedAt(line, t) = {rows[r][2]}
                   /\ rows[r + 1][2] \in PlottedAt(line, rows[r + 1][1])

C7_Witness ==
    /\ pc = "done"
    /\ \E k \in 1..Len(windows[1]) :
           /\ plotArgs[1][k][2].rows = << <<0, 2>>, <<2, 1>>, <<3, 2>> >>
           /\ PlottedAt(windows[1][k].line, 1) = {2}
    /\ \E k \in 1..Len(windows[1]) :
           /\ plotArgs[1][k][2].rows = << <<0, 1>>, <<1, 3>> >>
           /\ windows[1][k].line = << <<0, 1>>, <<1, 1>>, <<1, 3>> >>

(***************************************************************************)
(* C8. Once the discovery loop has finished, datasets is never changed     *)
(* again, it is consumed by exactly one util.plot call, and no step of the *)
(* run modifies any file.                                                  *)
(***************************************************************************)
LoopFinished == (pc = "loop" /\ i = Len(files)) \/ pc \in {"show", "done"} \/ PlotCalled

C8_DatasetsFrozenFilesReadOnly ==
    /\ [][LoopFinished => datasets' = datasets]_vars
    /\ [][fs' = fs]_vars
    /\ [](Len(plotArgs) <= 1)
    /\ [](PlotCalled => plotArgs[1] = datasets)
    /\ [](pc \in {"show", "done"} => Len(plotArgs) = 1)

C8_Witness ==
    /\ pc = "done"
    /\ Len(datasets) = 3
    /\ plotArgs = <<datasets>>

(***************************************************************************)
(* C9. In every run that completes, all matching files are parsed and      *)
(* labelled first, then util.plot is called exactly once with the complete *)
(* collection, then the chart is shown exactly once; util.plot never gets  *)
(* a partial collection and no file is read after the plot call.           *)
(***************************************************************************)
C9_ParseThenPlotThenShow ==
    /\ [](/\ Len(plotArgs) <= 1
          /\ Len(windows) <= 1
          /\ ShowCalled => PlotCalled
          /\ PlotCalled =>
                 /\ readLog = files
                 /\ {files[k] : k \in 1..Len(files)} = Discovered
                 /\ Len(plotArgs[1]) = Len(files)
                 /\ \A k \in 1..Len(files) : plotArgs[1][k][1] = endpoint_name(files[k])
          /\ pc = "done" => Len(plotArgs) = 1 /\ Len(windows) = 1)
    /\ [][PlotCalled => readLog' = readLog /\ plotArgs' = plotArgs]_vars
    /\ [][ShowCalled => windows' = windows]_vars

C9_Witness ==
    /\ pc = "done"
    /\ Len(files) = 3
    /\ readLog = files
    /\ Len(plotArgs) = 1
    /\ Len(plotArgs[1]) = 3
    /\ Len(windows) = 1

(***************************************************************************)
(* C10. Label extraction fails only when the path has no "[" or no "]".    *)
(* When both occur, the label runs from just after the first "[" to just   *)
(* before the first "]" of the path, also with nested or repeated          *)
(* brackets; when that "]" comes before the "[", the run does not fail,    *)
(* the label is empty, and the file's series is still appended and drawn.  *)
(***************************************************************************)
C10_LabelCutAtFirstClose ==
    /\ (pc = "failed" /\ error = "ValueError") => MissingBrackets(files[i + 1])
    /\ \A k \in 1..Len(readLog) :
           (~MissingBrackets(readLog[k]) /\ ~Malformed(fs[readLog[k]])) =>
               /\ k <= Len(origin)
               /\ origin[k] = readLog[k]
    /\ \A k \in 1..Len(origin) :
           LET p == origin[k]
               a == FirstPos(p, "[")
               b == FirstPos(p, "]")
           IN  /\ a > 0 /\ b > 0
               /\ datasets[k][1] = SubSeq(p, a + 1, b - 1)
               /\ b < a => datasets[k][1] = <<>>
               /\ pc = "done" => windows[1][k].label = datasets[k][1]

C10_Witness ==
    /\ pc = "done"
    /\ \E k \in 1..Len(origin) :
           /\ FirstPos(origin[k], "]") < FirstPos(origin[k], "[")
           /\ FirstPosAfter(origin[k], "]", FirstPos(origin[k], "[")) > 0
           /\ datasets[k][1] = <<>>
           /\ windows[1][k].label = <<>>

====
